---- MODULE Spec2Model ----
(***************************************************************************)
(* Model of organize_downloads.py: the organizer (organize), the mover     *)
(* (safe_move, resolve_name_collision), the action journal (record_action) *)
(* and the undo engine (undo_actions), over a small filesystem.            *)
(*                                                                         *)
(* A path is a sequence of names relative to the resolved DownloadsPath    *)
(* (<<>> is the downloads directory itself).  A name is a record           *)
(* [base, ctr, ext]: the text  base + " (c1)" + " (c2)" ... + ext , so     *)
(* that Path.stem is (base, ctr) and Path.suffix is ext.                   *)
(***************************************************************************)
EXTENDS Integers, Sequences, FiniteSets, TLC

\* ------------------------------------------------------------------ bounds
MaxNewFiles == 1      \* files that appear in the downloads directory later
MaxCount    == 3      \* largest undo count passed to undo_actions
MaxLimit    == 2      \* largest preview limit passed to organize
MaxMalformed == 1     \* malformed lines present in the action log at a time

Min(a, b) == IF a < b THEN a ELSE b

\* ------------------------------------------------------------------ names
N(b, e) == [base |-> b, ctr |-> <<>>, ext |-> e]

A_JPG       == N("a", ".jpg")
B_TXT       == N("b", ".TXT")
DESKTOP_INI == N("desktop", ".ini")
SUB         == N("sub", "")
IMAGES      == N("Images", "")
OTHERS      == N("Others", "")
LARGEFILES  == N("LargeFiles", "")

\* names under which a new download may appear
NewNames == {A_JPG, B_TXT}

\* str.lower() on the suffixes that occur
Lower(e) == CASE e = ".TXT" -> ".txt"
              [] e = ".JPG" -> ".jpg"
              [] e = ".PNG" -> ".png"
              [] OTHER      -> e

\* ----------------------------------------------------------------- config
\* config["Categories"], in declaration order
Categories == << [cat |-> "Images", exts |-> {".jpg", ".PNG"}] >>

\* config["Ignore"]
Ignore == {DESKTOP_INI}

\* config["LargeFileThresholdMB"]
LargeFileThresholdMB == 1

MB == 1024 * 1024

\* st_size of a file, by file identity: even identities are exactly at the
\* threshold, odd ones one byte below
SizeOf(id) == IF id % 2 = 0 THEN LargeFileThresholdMB * MB
                            ELSE LargeFileThresholdMB * MB - 1

\* ------------------------------------------------------------------ paths
Parent(p)   == SubSeq(p, 1, Len(p) - 1)
NameOf(p)   == p[Len(p)]
Child(d, n) == Append(d, n)
Downloads   == <<>>

\* proper, non-empty ancestors of p, p included
Ancestors(p) == {SubSeq(p, 1, k) : k \in 1..Len(p)}

VARIABLES
  files,          \* regular files: path -> file identity
  dirs,           \* directories under the downloads directory
  xdev,           \* directories that are mount points of another device
  dirOrder,       \* the order in which iterdir() yields the entries
  nextId,         \* identity of the next file that appears
  newCount,       \* number of files that have appeared since the start
  journal,        \* the lines of the action log file
  moved,          \* history: the moves safe_move has physically made
  \* organize
  opc,            \* "idle" | "loop" | "record" | "returned" | "raised"
  dry_run, preview_limit,
  flist,          \* files = scan_folder(...)
  idx,            \* number of completed loop iterations
  summary, processed,
  final,          \* the value safe_move returned to the loop body
  \* undo_actions
  upc,            \* "idle" | "loop" | "write" | "returned"
  count, lines, to_undo, remaining, undone,
  upos,           \* number of lines of reversed(to_undo) consumed
  examined,       \* history: positions in lines of the lines consumed
  afterMove,      \* history: this undo began right after an organize run
                  \* that returned having moved at least one file
  freeAtCall,     \* history: when this undo was called nothing existed at
                  \* the source path of any selected record
  \* configuration
  threshold,      \* config["LargeFileThresholdMB"] of this installation
  classify        \* one classification: the file name, the category map
                  \* and the category returned ("?" before the call)

fsvars  == <<files, dirs, xdev, dirOrder, nextId, newCount>>
orgvars == <<opc, dry_run, preview_limit, flist, idx, summary, processed, final>>
undvars == <<upc, count, lines, to_undo, remaining, undone, upos, examined, afterMove,
             freeAtCall>>
cfgvars == <<threshold, classify>>
vars    == <<fsvars, journal, moved, orgvars, undvars, cfgvars>>

\* Path.exists() / Path.is_file()
Exists(f, d, p) == p \in DOMAIN f \/ p \in d \/ p = Downloads
IsFile(f, p)    == p \in DOMAIN f

\* the filesystem after the file at path s is renamed to path t
Rename(f, s, t) ==
  [p \in (DOMAIN f \ {s}) \cup {t} |-> IF p = t THEN f[s] ELSE f[p]]

\* os.replace raises OSError (EXDEV) when the two paths are on different devices
OnOtherDevice(x, p) == \E a \in Ancestors(Parent(p)) : a \in x
CrossDevice(x, s, t) == OnOtherDevice(x, s) # OnOtherDevice(x, t)

\* ------------------------------------------------------- pure functions
\* file_extension_lower
file_extension_lower(p) == Lower(NameOf(p).ext)

\* categories = {k: [e.lower() for e in v] ...}, the map organize passes on
LoweredCategories ==
  [i \in 1..Len(Categories) |->
     [cat |-> Categories[i].cat, exts |-> {Lower(e) : e \in Categories[i].exts}]]

\* mutant: the last category that lists the extension wins
RECURSIVE FindFrom_Last(_, _, _)
FindFrom_Last(ext, categories, i) ==
  IF i > Len(categories) THEN "Others"
  ELSE LET later == FindFrom_Last(ext, categories, i + 1)
       IN  IF later # "Others" THEN later
           ELSE IF ext \in {Lower(e) : e \in categories[i].exts}
                  THEN categories[i].cat
                  ELSE "Others"

RECURSIVE FindFrom(_, _, _)
FindFrom(ext, categories, i) ==
  IF i > Len(categories) THEN "Others"
  ELSE IF ext \in {Lower(e) : e \in categories[i].exts} THEN categories[i].cat
  ELSE FindFrom(ext, categories, i + 1)

\* find_category: the first category, in order, that lists the extension
find_category(ext, categories) == FindFrom(ext, categories, 1)

\* the keys of summary: list(categories.keys()) + ["Others"]
SummaryKeys == {Categories[i].cat : i \in 1..Len(Categories)} \cup {"Others"}

\* f"{stem} ({counter}){suffix}" in the directory of dest
Candidate(dest, counter) ==
  Child(Parent(dest), [NameOf(dest) EXCEPT !.ctr = Append(@, counter)])

RECURSIVE FirstFree(_, _, _, _)
FirstFree(f, d, dest, counter) ==
  IF ~Exists(f, d, Candidate(dest, counter)) THEN Candidate(dest, counter)
  ELSE FirstFree(f, d, dest, counter + 1)

\* mutant: the destination is used as computed
resolve_name_collision_None(f, d, dest) == dest

\* mutant: a single retry instead of the loop
resolve_name_collision_Once(f, d, dest) ==
  IF ~Exists(f, d, dest) THEN dest ELSE Candidate(dest, 1)

\* resolve_name_collision
resolve_name_collision(f, d, dest) ==
  IF ~Exists(f, d, dest) THEN dest ELSE FirstFree(f, d, dest, 1)

\* target.iterdir(): the entries of the downloads directory, in directory order
IterDir(f, d, order) ==
  LET Present(n) == Exists(f, d, Child(Downloads, n))
      names == SelectSeq(order, Present)
  IN  [i \in 1..Len(names) |-> Child(Downloads, names[i])]

\* mutant: the ignore list is not consulted
Scanned_NoIgnore(f, p) == IsFile(f, p)

\* the filter of scan_folder
Scanned(f, p) == IsFile(f, p) /\ NameOf(p) \notin Ignore

\* scan_folder
scan_folder(f, d, order) ==
  LET Keep(p) == Scanned(f, p)
  IN  SelectSeq(IterDir(f, d, order), Keep)

\* mutant: a file exactly at the threshold is not large
IsLarge_Strict(size) == threshold # 0 /\ size > threshold * MB

\* the large-file test of organize
IsLarge(size) == threshold # 0 /\ size >= threshold * MB

\* dest_path as organize computes it for one file
DestPath(f, file) ==
  LET cat         == find_category(file_extension_lower(file), LoweredCategories)
      dest_folder == Child(Downloads, N(cat, ""))
  IN  IF IsLarge(SizeOf(f[file]))
        THEN Child(Child(dest_folder, LARGEFILES), NameOf(file))
        ELSE Child(dest_folder, NameOf(file))

CategoryOf(file) == find_category(file_extension_lower(file), LoweredCategories)

\* safe_move: the outcome of one call.  io = "denied" makes both os.replace
\* and shutil.move fail (permission denied, disk full).
safe_move(f, d, x, src, dest, io) ==
  LET mkdirOk    == \A a \in Ancestors(Parent(dest)) : ~IsFile(f, a)
      d2         == d \cup Ancestors(Parent(dest))
      final_dest == resolve_name_collision(f, d2, dest)
      replaced   == IsFile(f, src) /\ io = "ok" /\ ~CrossDevice(x, src, final_dest)
      fallback   == IsFile(f, src) /\ io = "ok"
  IN  IF ~mkdirOk THEN [ok |-> FALSE, files |-> f, dirs |-> d, final |-> dest]
      ELSE IF replaced \/ fallback
        THEN [ok |-> TRUE, files |-> Rename(f, src, final_dest), dirs |-> d2,
              final |-> final_dest]
        ELSE [ok |-> FALSE, files |-> f, dirs |-> d2, final |-> final_dest]

\* one line of the action log: json.dumps of {"timestamp", "src", "dest"};
\* a line json.loads rejects has valid = FALSE
Entry(src, dest) == [valid |-> TRUE, src |-> src, dest |-> dest]

\* record_action
record_action(log, src, dest) == Append(log, Entry(src, dest))

\* Python's normalisation of a slice bound i for a list of length n
SliceIndex(i, n) ==
  IF i < 0 THEN (IF i + n < 0 THEN 0 ELSE i + n)
           ELSE (IF i > n THEN n ELSE i)

\* mutant: the head of the list instead of its tail
ToUndo_Head(ls, cnt) == SubSeq(ls, 1, Min(cnt, Len(ls)))

\* lines[-count:]
ToUndo(ls, cnt) == SubSeq(ls, SliceIndex(-cnt, Len(ls)) + 1, Len(ls))

\* mutant: the journal is written back whole
Remaining_All(ls, cnt) == ls

\* mutant: lines[:count]
Remaining_Head(ls, cnt) == SubSeq(ls, 1, SliceIndex(cnt, Len(ls)))

\* lines[:-count]
Remaining(ls, cnt) == SubSeq(ls, 1, SliceIndex(-cnt, Len(ls)))

\* mutant: to_undo is walked oldest first
ReversedIndex_Forward(n, pos) == pos + 1

\* the index in to_undo of the line that reversed(to_undo) yields after
\* pos lines have been consumed
ReversedIndex(n, pos) == n - pos

\* mutant: the test of the source path is inverted
UndoPrecondition_SrcExists(f, d, entry) ==
  Exists(f, d, entry.dest) /\ Exists(f, d, entry.src)

\* mutant: the source path is not tested
UndoPrecondition_DestOnly(f, d, entry) == Exists(f, d, entry.dest)

\* dest.exists() and not src.exists()
UndoPrecondition(f, d, entry) ==
  Exists(f, d, entry.dest) /\ ~Exists(f, d, entry.src)

\* mutant: the dry-run flag is not consulted
ShouldMove_Always(dry) == TRUE

\* the branch of the loop body of organize
ShouldMove(dry) == ~dry

\* mutant: the limit is compared with the index, not with index + 1
LoopControl_OffByOne(limit, done, n) ==
  IF (limit # 0 /\ done > limit) \/ done = n THEN "returned" ELSE "loop"

\* the loop control of organize after the iteration that completes done files
LoopControl(limit, done, n) ==
  IF (limit # 0 /\ done >= limit) \/ done = n THEN "returned" ELSE "loop"

\* mutant: the try statement encloses the loop, so a bad line ends the call
UndoControl_Abort(valid, done, n) ==
  IF ~valid THEN "returned" ELSE IF done = n THEN "write" ELSE "loop"

\* where undo_actions continues after the iteration that completes done
\* lines of n: the except clause is inside the loop, so a line that fails to
\* parse goes the same way as any other
UndoControl(valid, done, n) == IF done = n THEN "write" ELSE "loop"

\* mutant: the lines appended since the log was read are kept
WriteBack_Merge(rem, cur, read) == rem \o SubSeq(cur, Len(read) + 1, Len(cur))

\* action_log.write_text(remaining): the new content of a log that holds cur
\* now and held read when undo_actions read it
WriteBack(rem, cur, read) == rem

\* mutant: a failure of safe_move is swallowed
AfterSafeMove_Swallow(ok) == "record"

\* where organize continues after a call of safe_move
AfterSafeMove(ok) == IF ok THEN "record" ELSE "raised"

\* ------------------------------------------------------------ initial state
DirOrders ==
  { <<DESKTOP_INI, A_JPG, SUB, IMAGES, B_TXT, OTHERS>>,
    <<OTHERS, B_TXT, IMAGES, SUB, A_JPG, DESKTOP_INI>> }

\* the downloads directory before the first run: two downloads, an ignored
\* file and a subdirectory holding a file
BaseFiles ==
  (<<A_JPG>> :> 1) @@ (<<B_TXT>> :> 2) @@ (<<DESKTOP_INI>> :> 3)
    @@ (<<SUB, A_JPG>> :> 5)

\* an Images folder left by an earlier session, already holding an a.jpg
ImagesFiles == (<<IMAGES, A_JPG>> :> 7)

\* the state before the first invocation, over the downloads of base
InitOver(base) ==
  /\ \E pre \in {"none", "same", "other"} :
       /\ files = IF pre = "none" THEN base ELSE base @@ ImagesFiles
       /\ dirs  = IF pre = "none" THEN {<<SUB>>} ELSE {<<SUB>>, <<IMAGES>>}
       /\ xdev  = IF pre = "other" THEN {<<IMAGES>>} ELSE {}
  /\ dirOrder \in DirOrders
  /\ nextId = 9
  /\ newCount = 0
  /\ journal = <<>>
  /\ moved = {}
  /\ opc = "idle" /\ dry_run = FALSE /\ preview_limit = 0 /\ flist = <<>>
  /\ idx = 0 /\ summary = [k \in SummaryKeys |-> 0] /\ processed = 0
  /\ final = <<>>
  /\ upc = "idle" /\ count = 0 /\ lines = <<>> /\ to_undo = <<>>
  /\ remaining = <<>> /\ undone = 0 /\ upos = 0 /\ examined = <<>>
  /\ afterMove = FALSE /\ freeAtCall = FALSE

InitState == InitOver(BaseFiles)

NoClassify == [name |-> A_JPG, map |-> Categories, out |-> "?"]

Init == InitState /\ threshold = LargeFileThresholdMB /\ classify = NoClassify

\* no call of organize is on the stack: its locals are gone
OrgCleared ==
  /\ opc' = "idle" /\ dry_run' = FALSE /\ preview_limit' = 0 /\ flist' = <<>>
  /\ idx' = 0 /\ summary' = [k \in SummaryKeys |-> 0] /\ processed' = 0
  /\ final' = <<>>

\* no call of undo_actions is on the stack: its locals are gone
UndoCleared ==
  /\ upc' = "idle" /\ count' = 0 /\ lines' = <<>> /\ to_undo' = <<>>
  /\ remaining' = <<>> /\ undone' = 0 /\ upos' = 0 /\ examined' = <<>>
  /\ afterMove' = FALSE /\ freeAtCall' = FALSE

OrgRunning  == opc \in {"loop", "record"}
UndoRunning == upc \in {"loop", "write"}

\* ------------------------------------------------------------------ organize
\* organize(config, dry_run, preview_limit) up to the first loop iteration
OrganizeCall(dry, limit) ==
  /\ ~OrgRunning
  /\ dry_run' = dry
  /\ preview_limit' = limit
  /\ flist' = scan_folder(files, dirs, dirOrder)
  /\ summary' = [k \in SummaryKeys |-> 0]
  /\ processed' = 0
  /\ idx' = 0
  /\ final' = <<>>
  /\ opc' = IF flist' = <<>> THEN "returned" ELSE "loop"
  /\ UNCHANGED <<fsvars, journal, moved, cfgvars>>

OrganizeStart(dry, limit) ==
  /\ ~UndoRunning
  /\ OrganizeCall(dry, limit)
  /\ UndoCleared

\* one dry-run iteration of the loop
OrgDry ==
  /\ opc = "loop"
  /\ ~ShouldMove(dry_run)
  /\ LET file == flist[idx + 1]
         cat  == CategoryOf(file)
     IN  /\ summary' = [summary EXCEPT ![cat] = @ + 1]
         /\ processed' = processed + 1
         /\ idx' = idx + 1
         /\ opc' = LoopControl(preview_limit, idx + 1, Len(flist))
  /\ UNCHANGED <<fsvars, journal, moved, dry_run, preview_limit, flist, final, undvars, cfgvars>>

\* the call of safe_move in a non-dry-run iteration
OrgMove(io) ==
  /\ opc = "loop"
  /\ ShouldMove(dry_run)
  /\ LET file == flist[idx + 1]
         r    == safe_move(files, dirs, xdev, file, DestPath(files, file), io)
     IN  /\ files' = r.files
         /\ dirs'  = r.dirs
         /\ final' = IF r.ok THEN r.final ELSE final
         /\ moved' = IF r.ok THEN moved \cup {[src |-> file, dest |-> r.final]}
                             ELSE moved
         /\ opc'   = AfterSafeMove(r.ok)
  /\ UNCHANGED <<xdev, dirOrder, nextId, newCount, journal, dry_run, preview_limit,
                 flist, idx, summary, processed, undvars, cfgvars>>

\* record_action and the rest of a non-dry-run iteration
OrgRecord ==
  /\ opc = "record"
  /\ LET file == flist[idx + 1]
         cat  == CategoryOf(file)
     IN  /\ journal' = record_action(journal, file, final)
         /\ summary' = [summary EXCEPT ![cat] = @ + 1]
         /\ processed' = processed + 1
         /\ idx' = idx + 1
         /\ opc' = LoopControl(preview_limit, idx + 1, Len(flist))
  /\ UNCHANGED <<fsvars, moved, dry_run, preview_limit, flist, final, undvars, cfgvars>>

\* --------------------------------------------------------------- undo_actions
\* undo_actions(config, count) up to the first loop iteration
UndoCall(n) ==
  /\ ~UndoRunning
  /\ count' = n
  /\ lines' = journal
  /\ undone' = 0
  /\ upos' = 0
  /\ examined' = <<>>
  /\ IF journal = <<>>
       THEN /\ to_undo' = <<>>
            /\ remaining' = <<>>
            /\ upc' = "returned"
       ELSE /\ to_undo' = ToUndo(journal, n)
            /\ remaining' = Remaining(journal, n)
            /\ upc' = IF to_undo' = <<>> THEN "write" ELSE "loop"
  /\ freeAtCall' = \A i \in 1..Len(to_undo') :
                      to_undo'[i].valid => ~Exists(files, dirs, to_undo'[i].src)
  /\ UNCHANGED <<fsvars, journal, moved, cfgvars>>

UndoStart(n) ==
  /\ ~OrgRunning
  /\ UndoCall(n)
  /\ afterMove' = (opc = "returned" /\ ~dry_run /\ processed >= 1)
  /\ OrgCleared

\* one iteration of  for line in reversed(to_undo)
UndoStep ==
  /\ upc = "loop"
  /\ LET i     == ReversedIndex(Len(to_undo), upos)
         entry == to_undo[i]
         doit  == /\ entry.valid
                  /\ UndoPrecondition(files, dirs, entry)
                  /\ ~CrossDevice(xdev, entry.dest, entry.src)
     IN  /\ files'  = IF doit THEN Rename(files, entry.dest, entry.src) ELSE files
         /\ undone' = IF doit THEN undone + 1 ELSE undone
         /\ examined' = Append(examined, Len(lines) - Len(to_undo) + i)
  /\ upos' = upos + 1
  /\ upc' = UndoControl(to_undo[ReversedIndex(Len(to_undo), upos)].valid,
                        upos + 1, Len(to_undo))
  /\ UNCHANGED <<dirs, xdev, dirOrder, nextId, newCount, journal, moved, orgvars,
                 count, lines, to_undo, remaining, afterMove, freeAtCall, cfgvars>>

\* action_log.write_text(remaining) and the return
UndoWrite ==
  /\ upc = "write"
  /\ journal' = WriteBack(remaining, journal, lines)
  /\ upc' = "returned"
  /\ UNCHANGED <<fsvars, moved, orgvars, count, lines, to_undo, remaining, undone,
                 upos, examined, afterMove, freeAtCall, cfgvars>>

\* --------------------------------------------------------------- environment
\* a new download appears in the downloads directory between two invocations
NewFile(n) ==
  /\ ~OrgRunning /\ ~UndoRunning
  /\ newCount < MaxNewFiles
  /\ ~Exists(files, dirs, Child(Downloads, n))
  /\ files' = files @@ (Child(Downloads, n) :> nextId)
  /\ nextId' = nextId + 1
  /\ newCount' = newCount + 1
  /\ OrgCleared /\ UndoCleared
  /\ UNCHANGED <<dirs, xdev, dirOrder, journal, moved, cfgvars>>

Limits     == 0..MaxLimit
Counts     == 0..MaxCount
IOOutcomes == {"ok", "denied"}

Next ==
  \/ \E dry \in BOOLEAN, limit \in Limits : OrganizeStart(dry, limit)
  \/ OrgDry
  \/ \E io \in IOOutcomes : OrgMove(io)
  \/ OrgRecord
  \/ \E n \in Counts : UndoStart(n)
  \/ UndoStep
  \/ UndoWrite
  \/ \E n \in NewNames : NewFile(n)

Spec == Init /\ [][Next]_vars


\* ------------------------------------------------- other configurations
\* the values of config["LargeFileThresholdMB"] tried: disabled, at the
\* size of the large files, and above it
Thresholds == {0, LargeFileThresholdMB, 2 * LargeFileThresholdMB}

InitThreshold == InitState /\ threshold \in Thresholds /\ classify = NoClassify

\* the program under every threshold of Thresholds
SpecThreshold == InitThreshold /\ [][Next]_vars

\* the category maps tried: the configured one, two that declare .jpg
\* twice in either order, one that declares .txt twice under different
\* cases, one that lists the empty suffix, and the empty map
CategoryMaps ==
  { Categories,
    << [cat |-> "Images", exts |-> {".jpg", ".PNG"}],
       [cat |-> "Docs",   exts |-> {".txt", ".JPG"}] >>,
    << [cat |-> "Docs",   exts |-> {".txt", ".JPG"}],
       [cat |-> "Images", exts |-> {".jpg", ".PNG"}] >>,
    << [cat |-> "Docs",   exts |-> {".TXT"}],
       [cat |-> "Text",   exts |-> {".txt", ".pdf"}],
       [cat |-> "Images", exts |-> {".png"}] >>,
    << [cat |-> "Empty",  exts |-> {}],
       [cat |-> "Plain",  exts |-> {"", ".ini"}] >>,
    << >> }

\* the suffixes of the file names classified
Suffixes == {".jpg", ".JPG", ".png", ".PNG", ".txt", ".TXT", ".pdf", ".ini", ".zip", ""}

\* categories = {k: [e.lower() for e in v] ...} for any category map
LowerCats(cats) ==
  [i \in 1..Len(cats) |->
     [cat |-> cats[i].cat, exts |-> {Lower(e) : e \in cats[i].exts}]]

InitClassify ==
  /\ InitState /\ threshold = LargeFileThresholdMB
  /\ classify \in [name : {N("x", e) : e \in Suffixes}, map : CategoryMaps, out : {"?"}]

\* ext = file_extension_lower(file); cat = find_category(ext, categories)
Classify ==
  /\ classify.out = "?"
  /\ classify' =
       [classify EXCEPT !.out =
          find_category(file_extension_lower(<<classify.name>>),
                        LowerCats(classify.map))]
  /\ UNCHANGED <<fsvars, journal, moved, orgvars, undvars, threshold>>

NextClassify == Classify

\* the classification of one file name under one category map
SpecClassify == InitClassify /\ [][NextClassify]_vars

\* a line of the action log that json.loads or entry["src"] rejects
BadLine == [valid |-> FALSE, src |-> <<>>, dest |-> <<>>]

\* a malformed line gets into the action log between two invocations
\* (a torn write, an edit by hand)
Garble ==
  /\ ~OrgRunning /\ ~UndoRunning
  /\ Cardinality({i \in 1..Len(journal) : ~journal[i].valid}) < MaxMalformed
  /\ journal' = Append(journal, BadLine)
  /\ OrgCleared /\ UndoCleared
  /\ UNCHANGED <<fsvars, moved, cfgvars>>

NextMalformed == Next \/ Garble

\* the program with an action log that can hold malformed lines
SpecMalformed == Init /\ [][NextMalformed]_vars

\* organize called by one process while another may be inside undo_actions
OrganizeConcurrent(limit) ==
  /\ OrganizeCall(FALSE, limit)
  /\ UNCHANGED undvars

\* undo_actions called by one process while another may be inside organize
UndoConcurrent(n) ==
  /\ UndoCall(n)
  /\ afterMove' = FALSE
  /\ UNCHANGED orgvars

NextConcurrent ==
  \/ \E limit \in Limits : OrganizeConcurrent(limit)
  \/ \E io \in IOOutcomes : OrgMove(io)
  \/ OrgRecord
  \/ \E n \in Counts : UndoConcurrent(n)
  \/ UndoStep
  \/ UndoWrite

\* one process running organize and one running undo_actions on the same
\* action log, their steps interleaved
SpecConcurrent == Init /\ [][NextConcurrent]_vars

\* a downloads directory in which b.TXT has not arrived yet
FewerFiles ==
  (<<A_JPG>> :> 1) @@ (<<DESKTOP_INI>> :> 3) @@ (<<SUB, A_JPG>> :> 5)

InitRuns ==
  /\ InitOver(FewerFiles)
  /\ threshold = LargeFileThresholdMB /\ classify = NoClassify

\* organize runs that are not dry and in which no move fails, new downloads
\* between them, and then one call of undo_actions
NextRuns ==
  \/ \E limit \in Limits : upc = "idle" /\ OrganizeStart(FALSE, limit)
  \/ OrgMove("ok")
  \/ OrgRecord
  \/ \E n \in NewNames : upc = "idle" /\ NewFile(n)
  \/ \E n \in Counts : upc = "idle" /\ UndoStart(n)
  \/ UndoStep
  \/ UndoWrite

SpecRuns == InitRuns /\ [][NextRuns]_vars

\* ------------------------------------------------------------------ helpers
RECURSIVE SumOver(_, _)
SumOver(fn, keys) ==
  IF keys = {} THEN 0
  ELSE LET k == CHOOSE x \in keys : TRUE
       IN  fn[k] + SumOver(fn, keys \ {k})

\* a step of organize: its call, or a step of its loop
OrganizeCalled == ~OrgRunning /\ opc' \in {"loop", "returned"}
OrganizeStep   == OrgRunning \/ OrganizeCalled

\* ---------------------------------------------------------------------- C1
\* every valid journal line names a move that safe_move has made
JournalRefersToMoves ==
  \A i \in 1..Len(journal) :
    journal[i].valid =>
      [src |-> journal[i].src, dest |-> journal[i].dest] \in moved

\* the journal changes in an organize run only by the append that follows a
\* successful move, the appended line is the record of that move, and
\* neither the move itself nor a failed move appends anything
AppendFollowsMove ==
  /\ (opc = "record") =>
        /\ journal' = Append(journal, Entry(flist[idx + 1], final))
        /\ IsFile(files, final) /\ ~IsFile(files, flist[idx + 1])
        /\ [src |-> flist[idx + 1], dest |-> final] \in moved
        /\ files' = files
  /\ (opc = "loop") => journal' = journal
  /\ (opc = "loop" /\ files' # files) => opc' = "record"
  /\ (opc = "loop" /\ opc' = "raised") => files' = files

\* C1: in a non-dry-run organize run every successful move appends exactly
\* one journal record, after the physical move; a failed move appends none;
\* every journal record refers to a move that actually happened.
C1_JournalAfterMove == []JournalRefersToMoves /\ [][AppendFollowsMove]_vars

C1_Witness ==
  /\ opc = "returned" /\ ~dry_run /\ processed = 2
  /\ Len(journal) = 2 /\ Cardinality(moved) = 2

\* ---------------------------------------------------------------------- C2
\* C2 (as claimed): a successful non-dry-run move followed immediately by
\* undo_actions with count 1 puts the file back at its source path, leaves
\* nothing at the destination and removes the last journal record.
C2_RoundTrip ==
  (upc = "returned" /\ afterMove /\ count = 1) =>
    LET r == lines[Len(lines)]
    IN  /\ IsFile(files, r.src)
        /\ ~Exists(files, dirs, r.dest)
        /\ journal = SubSeq(lines, 1, Len(lines) - 1)

\* ---------------------------------------------------------------------- C3
\* C3: for count n >= 1 and a journal of total >= 1 lines, undo selects the
\* last min(n, total) lines and afterwards the journal holds the first
\* total - min(n, total) lines, unchanged and in order; with n > total the
\* journal ends empty and the call returns normally.
C3_SelectsTail ==
  (upc \in {"loop", "write", "returned"} /\ count >= 1 /\ Len(lines) >= 1) =>
    LET total == Len(lines)
        m     == Min(count, total)
    IN  /\ to_undo = [i \in 1..m |-> lines[total - m + i]]
        /\ remaining = [i \in 1..(total - m) |-> lines[i]]
        /\ upc = "returned" => journal = [i \in 1..(total - m) |-> lines[i]]

C3_Witness ==
  /\ upc = "returned" /\ count > Len(lines) /\ Len(lines) = 2
  /\ undone = 2 /\ journal = <<>>

\* ---------------------------------------------------------------------- C4
\* the summary a run over the listing fl with preview limit returns
SummaryOf(fl, limit) ==
  LET m == IF limit # 0 /\ limit < Len(fl) THEN limit ELSE Len(fl)
  IN  [k \in SummaryKeys |-> Cardinality({i \in 1..m : CategoryOf(fl[i]) = k})]

DryRunMutatesNothing ==
  ((OrgRunning /\ dry_run) \/ (OrganizeCalled /\ dry_run')) =>
     UNCHANGED <<files, dirs, journal>>

DryRunSummary ==
  (opc = "returned" /\ dry_run) =>
     summary = SummaryOf(scan_folder(files, dirs, dirOrder), preview_limit)

\* C4: a dry-run organize run moves no file, creates no directory and leaves
\* the journal unchanged; its summary is determined by the directory it
\* leaves unchanged, so a second dry-run returns the same summary.
C4_DryRun == [][DryRunMutatesNothing]_vars /\ []DryRunSummary

C4_Witness ==
  /\ opc = "returned" /\ dry_run /\ processed = 2
  /\ summary["Images"] = 1 /\ summary["Others"] = 1

\* ---------------------------------------------------------------------- C5
\* C5 (as claimed): when the move of one file fails, the run continues with
\* the next file, the failed file is not counted, and organize returns.
MoveFailed == opc = "loop" /\ ShouldMove(dry_run) /\ opc' # "record"

C5_RunContinues ==
  [][MoveFailed =>
       /\ opc' = LoopControl(preview_limit, idx + 1, Len(flist))
       /\ idx' = idx + 1
       /\ summary' = summary
       /\ journal' = journal]_vars

\* ---------------------------------------------------------------------- C6
\* the line an iteration of the undo loop consumes, read off the history
ConsumedLine == lines[examined'[Len(examined')]]

ReversedOnlyOnPrecondition ==
  (upc = "loop") =>
    LET e == ConsumedLine
    IN  /\ (files' # files) =>
              /\ e.valid
              /\ Exists(files, dirs, e.dest) /\ ~Exists(files, dirs, e.src)
              /\ files' = Rename(files, e.dest, e.src)
        /\ (e.valid /\ ~(Exists(files, dirs, e.dest) /\ ~Exists(files, dirs, e.src))) =>
              (files' = files /\ undone' = undone)
        /\ upos' = upos + 1 /\ upc' \in {"loop", "write"}
        /\ \A p \in DOMAIN files : \E q \in DOMAIN files' : files'[q] = files[p]

\* C6: undo reverses a selected record only if, when it is processed, its
\* destination exists and its source does not; otherwise the record is
\* skipped, no file moves and the batch continues; no file at a source path
\* is ever overwritten.
C6_UndoPrecondition == [][ReversedOnlyOnPrecondition]_vars

\* a record was skipped because a file had reappeared at its source path
C6_Witness ==
  /\ upc = "returned" /\ undone < Len(to_undo)
  /\ \E i \in 1..Len(to_undo) :
       /\ to_undo[i].valid
       /\ IsFile(files, to_undo[i].src) /\ IsFile(files, to_undo[i].dest)
       /\ ~CrossDevice(xdev, to_undo[i].dest, to_undo[i].src)

\* ---------------------------------------------------------------------- C7
SelectedRemoved ==
  (upc = "returned" /\ lines # <<>>) =>
     /\ journal \o to_undo = lines
     /\ undone <= Len(to_undo)

CountsReversals ==
  (upc = "loop") => undone' = undone + (IF files' # files THEN 1 ELSE 0)

\* C7: when undo_actions returns, every selected record is gone from the
\* journal tail, reversed or skipped alike, and the value returned is the
\* number of records reversed, which may be smaller than the number removed.
C7_TruncatesSelected == []SelectedRemoved /\ [][CountsReversals]_vars

C7_Witness ==
  /\ upc = "returned" /\ Len(to_undo) = 2 /\ undone = 1
  /\ Len(journal) = Len(lines) - 2

\* ---------------------------------------------------------------------- C8
\* the path the resolver must return for dest on the filesystem (f, d)
IsResolved(f, d, dest, result) ==
  /\ ~Exists(f, d, result)
  /\ IF ~Exists(f, d, dest) THEN result = dest
     ELSE \E k \in 1..(Cardinality(DOMAIN f) + Cardinality(d) + 1) :
            /\ result = Candidate(dest, k)
            /\ \A j \in 1..(k - 1) : Exists(f, d, Candidate(dest, j))

ResolvedAtMove ==
  (opc = "loop" /\ opc' = "record") =>
     /\ IsResolved(files, dirs', DestPath(files, flist[idx + 1]), final')
     /\ files' = Rename(files, flist[idx + 1], final')

\* C8: safe_move moves the file to the destination itself when nothing
\* exists there and otherwise to "stem (k).ext" for the smallest k >= 1 at
\* which nothing exists, judged on the filesystem as it is at the call.
C8_CollisionResolution == [][ResolvedAtMove]_vars

C8_Witness ==
  /\ IsFile(files, <<IMAGES, A_JPG>>)
  /\ IsFile(files, <<IMAGES, [A_JPG EXCEPT !.ctr = <<1>>]>>)
  /\ IsFile(files, <<IMAGES, [A_JPG EXCEPT !.ctr = <<2>>]>>)
  /\ opc = "record" /\ final = <<IMAGES, [A_JPG EXCEPT !.ctr = <<2>>]>>

\* ---------------------------------------------------------------------- C9
MostRecentFirst ==
  /\ Len(examined) = upos
  /\ \A k \in 1..Len(examined) : examined[k] = Len(lines) - k + 1

ReversesMostRecent ==
  (upc = "loop" /\ files' # files) =>
     LET e == lines[Len(lines) - upos]
     IN  files' = Rename(files, e.dest, e.src)

\* C9: undo consumes the selected lines most recent first: of two selected
\* records the one appended later is examined, and reversed, first.
C9_ReverseOrder == []MostRecentFirst /\ [][ReversesMostRecent]_vars

C9_Witness ==
  /\ upc = "returned" /\ examined = <<2, 1>> /\ undone = 2

\* --------------------------------------------------------------------- C10
\* an entry organize must not enumerate: anything below a subdirectory, and
\* a direct child whose name is in the ignore list
NotEnumerated(p) == Len(p) >= 2 \/ NameOf(p) \in Ignore

LeavesNotEnumerated ==
  OrganizeStep =>
    /\ \A p \in DOMAIN files :
         NotEnumerated(p) => (p \in DOMAIN files' /\ files'[p] = files[p])
    /\ dirs \subseteq dirs'

CountsOnlyEnumerated ==
  /\ \A i \in 1..Len(flist) : ~NotEnumerated(flist[i]) /\ flist[i] \notin dirs
  /\ (opc # "idle") =>
        /\ SumOver(summary, SummaryKeys) = idx
        /\ processed = idx
  /\ (opc = "returned" /\ ~dry_run) =>
        \A i \in 1..Len(journal) : ~NotEnumerated(journal[i].src)

\* C10: organize leaves ignored files, subdirectories and the files inside
\* them where they are, and neither counts nor journals any of them.
C10_EnumeratesOnlyFiles == [][LeavesNotEnumerated]_vars /\ []CountsOnlyEnumerated

C10_Witness ==
  /\ opc = "returned" /\ ~dry_run /\ processed = 2
  /\ IsFile(files, <<DESKTOP_INI>>) /\ IsFile(files, <<SUB, A_JPG>>)
  /\ <<SUB>> \in dirs /\ SumOver(summary, SummaryKeys) = 2

\* --------------------------------------------------------------------- C11
\* the file a successful call of safe_move has just moved lies in directory
\* dir under its own name, up to the collision counters
RoutedTo(dir) ==
  /\ Parent(final') = dir
  /\ NameOf(final').base = NameOf(flist[idx + 1]).base
  /\ NameOf(final').ext = NameOf(flist[idx + 1]).ext

LargeFileRule ==
  (opc = "loop" /\ opc' = "record") =>
     LET file == flist[idx + 1]
         s    == SizeOf(files[file])
         cat  == <<N(CategoryOf(file), "")>>
     IN  IF threshold # 0 /\ s >= threshold * 1024 * 1024
           THEN RoutedTo(Child(cat, LARGEFILES))
           ELSE RoutedTo(cat)

\* C11: with a threshold T # 0 a file of s bytes goes to
\* <category>/LargeFiles exactly when s >= T * 1024 * 1024 and to <category>
\* otherwise; with T = 0 no file goes under LargeFiles; the category is the
\* same in both cases.
C11_LargeFileRule == [][LargeFileRule]_vars

\* at threshold 1 the file of exactly 1 MB is under LargeFiles and the file
\* one byte smaller is not
C11_Witness ==
  /\ threshold = 1
  /\ IsFile(files, <<OTHERS, LARGEFILES, B_TXT>>) /\ files[<<OTHERS, LARGEFILES, B_TXT>>] = 2
  /\ \E p \in DOMAIN files : files[p] = 1 /\ Parent(p) = <<IMAGES>>

\* --------------------------------------------------------------------- C12
\* the categories of map m, by position, that list suffix e when case is ignored
Listing(m, e) == {i \in 1..Len(m) : Lower(e) \in {Lower(x) : x \in m[i].exts}}

\* C12: classification returns the first category in declared order whose
\* extensions contain the suffix, case ignored, also when several categories
\* declare it, and "Others" when none does.
C12_FirstMatchWins ==
  (classify.out # "?") =>
     LET hits == Listing(classify.map, classify.name.ext)
     IN  IF hits = {} THEN classify.out = "Others"
         ELSE \E i \in hits : /\ \A j \in hits : i <= j
                              /\ classify.out = classify.map[i].cat

\* x.JPG under a map where Images and then Docs declare .jpg
C12_Witness ==
  /\ classify.out = "Images" /\ classify.name.ext = ".JPG"
  /\ Len(classify.map) = 2 /\ Listing(classify.map, ".JPG") = {1, 2}

\* --------------------------------------------------------------------- C13
\* in a non-dry run the last idx journal lines record the moves of the first
\* idx scanned files, in scan order, and the files not yet reached are in place
FirstFilesMoved ==
  (opc \in {"loop", "record", "returned"} /\ ~dry_run) =>
     /\ Len(journal) >= idx
     /\ \A i \in 1..idx :
          LET r == journal[Len(journal) - idx + i]
          IN  r.src = flist[i] /\ IsFile(files, r.dest) /\ ~IsFile(files, flist[i])
     /\ \A i \in 1..Len(flist) :
          (i > idx /\ ~(opc = "record" /\ i = idx + 1)) => IsFile(files, flist[i])

\* a run that returns under a preview limit L >= 1 has processed min(L, F) files
StopsAtLimit ==
  (opc = "returned" /\ preview_limit >= 1) =>
     /\ idx = Min(preview_limit, Len(flist))
     /\ processed = Min(preview_limit, Len(flist))
     /\ SumOver(summary, SummaryKeys) = Min(preview_limit, Len(flist))
     /\ dry_run => \A i \in 1..Len(flist) : IsFile(files, flist[i])

\* the journal grows by exactly one line per completed non-dry iteration
OneRecordPerIteration ==
  OrganizeStep =>
     Len(journal') - Len(journal) =
        (IF OrgRunning /\ ~dry_run THEN idx' - idx ELSE 0)

\* C13: an organize run that returns under a preview limit L >= 1 over F
\* scanned files has processed exactly the first min(L, F) of them: the
\* summary counts sum to min(L, F) and, unless dry, exactly these files were
\* moved and journaled, the others being left in place.
C13_PreviewLimit ==
  []FirstFilesMoved /\ []StopsAtLimit /\ [][OneRecordPerIteration]_vars

C13_Witness ==
  /\ opc = "returned" /\ ~dry_run /\ preview_limit = 1 /\ Len(flist) = 2
  /\ processed = 1 /\ Len(journal) = 1 /\ journal[1].src = flist[1]
  /\ IsFile(files, flist[2])

\* --------------------------------------------------------------------- C14
MalformedSkipped ==
  (upc = "loop") =>
     LET e == ConsumedLine
     IN  /\ ~e.valid =>
              /\ files' = files /\ undone' = undone
              /\ upos' = upos + 1 /\ upc' \in {"loop", "write"}
         /\ (e.valid /\ Exists(files, dirs, e.dest) /\ ~Exists(files, dirs, e.src)
               /\ ~CrossDevice(xdev, e.dest, e.src)) =>
              /\ files' = Rename(files, e.dest, e.src)
              /\ undone' = undone + 1

AllSelectedConsumed ==
  /\ (upc = "write") => Len(examined) = Len(to_undo)
  /\ (upc = "returned" /\ lines # <<>>) =>
        /\ Len(examined) = Len(to_undo)
        /\ journal \o to_undo = lines

\* C14: a malformed line among the selected lines does not end the undo: it
\* is skipped, each other selected record is still processed (and reversed
\* when its precondition holds and the rename succeeds), and the journal is
\* truncated at the end.
C14_MalformedLine == [][MalformedSkipped]_vars /\ []AllSelectedConsumed

\* the malformed line was consumed first and the record before it reversed
C14_Witness ==
  /\ upc = "returned" /\ Len(to_undo) = 2
  /\ ~to_undo[2].valid /\ to_undo[1].valid
  /\ undone = 1 /\ IsFile(files, to_undo[1].src)
  /\ journal = SubSeq(lines, 1, Len(lines) - 2)

\* --------------------------------------------------------------------- C15
\* C15 (as claimed): undo_actions with count 0 on a non-empty journal
\* selects no record, reverses no move, returns 0 and leaves the journal
\* unchanged.
C15_CountZero ==
  (upc \in {"loop", "write", "returned"} /\ count = 0 /\ lines # <<>>) =>
     /\ to_undo = <<>>
     /\ undone = 0
     /\ upc = "returned" => journal = lines

\* --------------------------------------------------------------------- C16
\* C16 (as claimed): when a record's precondition holds and the rename from
\* destination to source fails, undo falls back to copy-then-delete, so the
\* file is restored to its source path and the record counted as reversed.
C16_UndoFallback ==
  [][(upc = "loop") =>
       LET e == ConsumedLine
       IN  (e.valid /\ Exists(files, dirs, e.dest) /\ ~Exists(files, dirs, e.src)
              /\ CrossDevice(xdev, e.dest, e.src)) =>
             /\ files' = Rename(files, e.dest, e.src)
             /\ undone' = undone + 1]_vars

\* --------------------------------------------------------------------- C17
\* the rewrite stores the head of the list read earlier, whatever the log
\* holds by now: a line appended since the read is gone
StaleRewrite ==
  (upc = "write" /\ upc' = "returned") =>
     /\ journal' = SubSeq(lines, 1, Len(lines) - Len(to_undo))
     /\ Len(journal) > Len(lines) => Len(journal') < Len(journal) - Len(to_undo)

\* C17: the journal update of undo is a read-modify-write that is not
\* atomic: a record organize appends between the read and the rewrite is
\* dropped by the rewrite, which leaves a completed move without a record.
C17_LostRecord == [][StaleRewrite]_vars

\* organize has returned, one of its moves stands, and neither the journal
\* nor the list the undo read holds its record
C17_Witness ==
  /\ upc = "returned" /\ opc = "returned" /\ lines # <<>>
  /\ \E i \in 1..idx : \E m \in moved :
       /\ m.src = flist[i]
       /\ IsFile(files, m.dest) /\ ~IsFile(files, m.src)
       /\ \A k \in 1..Len(journal) : journal[k] # Entry(m.src, m.dest)
       /\ \A k \in 1..Len(lines) : lines[k] # Entry(m.src, m.dest)

\* --------------------------------------------------------------------- C18
FileIds(f) == {f[p] : p \in DOMAIN f}

\* every file is at exactly one path
OnePathPerFile ==
  \A p, q \in DOMAIN files : files[p] = files[q] => p = q

\* a step of organize or of undo_actions keeps every file, and moves a file
\* only to a path at which nothing exists
MovesToFreePath ==
  (nextId' = nextId) =>
     /\ FileIds(files') = FileIds(files)
     /\ Cardinality(DOMAIN files') = Cardinality(DOMAIN files)
     /\ (files' # files) =>
          \E s \in DOMAIN files : \E t \in DOMAIN files' :
             /\ ~Exists(files, dirs', t)
             /\ files' = Rename(files, s, t)

\* C18: in organize runs and undo calls made one after another no file is
\* lost or overwritten: every move and every reversal goes to a path where
\* nothing exists, the number of files is unchanged by every step and each
\* file stays at exactly one path.
C18_NoFileLost == []OnePathPerFile /\ [][MovesToFreePath]_vars

\* after a move beside an existing Images/a.jpg and an undo of the last move
C18_Witness ==
  /\ upc = "returned" /\ undone = 1 /\ newCount = 0
  /\ IsFile(files, <<IMAGES, A_JPG>>)
  /\ IsFile(files, <<IMAGES, [A_JPG EXCEPT !.ctr = <<1>>]>>)
  /\ FileIds(files) = {1, 2, 3, 5, 7}


\* --------------------------------------------------------------------- C19
\* every record read was reversed, its file is back and the journal is empty
AllReversed ==
  /\ undone = Len(lines)
  /\ \A i \in 1..Len(lines) :
       IsFile(files, lines[i].src) /\ ~IsFile(files, lines[i].dest)
  /\ journal = <<>>

DistinctSources(ls) ==
  \A i, j \in 1..Len(ls) : ls[i].src = ls[j].src => i = j

SameDevice(ls) ==
  \A i \in 1..Len(ls) : ~CrossDevice(xdev, ls[i].dest, ls[i].src)

C20_JournalConsistent ==
  ~UndoRunning =>
     /\ \A i \in 1..Len(journal) : IsFile(files, journal[i].dest)
     /\ \A i, j \in 1..Len(journal) : journal[i].dest = journal[j].dest => i = j

\* an undo of one of two records has returned: the record it reversed is
\* gone from the journal and the record it kept still has its file
C20_Witness ==
  /\ upc = "returned" /\ count = 1 /\ Len(lines) = 2 /\ undone = 1
  /\ journal = <<lines[1]>>
  /\ IsFile(files, lines[1].dest) /\ ~IsFile(files, lines[2].dest)

====
